---- MODULE Spec2Model ----
(***************************************************************************)
(* Resource adapters of k8s-AppController (package resources): Deployment, *)
(* ReplicaSet, ConfigMap, PersistentVolumeClaim, Service, StatefulSet and  *)
(* their Existing* variants, run against one remote object of the adapter's*)
(* kind and the cluster objects a selector can pick.                       *)
(***************************************************************************)
EXTENDS Integers, Sequences, FiniteSets, TLC

VARIABLES
    kind,        \* which adapter type is under test
    existing,    \* TRUE: the Existing* variant (built by NewExisting)
    decl,        \* the declared object (def.<Kind>): ObjectMeta+Spec
    remote,      \* the live object Client.Get returns, or NoObj
    cluster,     \* pods/jobs/replicasets/statefulsets a selector may list
    sharedVar,   \* build: range variable shared by all iterations (Go < 1.22)
    createCalls, \* number of Client.Create calls issued so far
    last,        \* the last adapter call and what it returned
    procAlive,   \* FALSE once the process has exited (log.Fatalf, panic)
    sibling      \* lifecycle of an independent sibling node of the same run

vars == <<kind, existing, decl, remote, cluster, sharedVar, createCalls, last,
          procAlive, sibling>>

\* ---------------------------------------------------------------- bounds
MaxReplicas == 10
MaxDeploymentReplicas == 2
MaxObjs == 2
MaxCalls == 2

\* ------------------------------------------------------------- constants
Kinds == {"deployment", "replicaset", "configmap", "persistentvolumeclaim",
          "service", "statefulset"}

ResourceReady == "ready"
ResourceNotReady == "not ready"
ResourceError == "error"
ResourceWaitingForUpgrade == "waiting for upgrade"
Panicked == "panic"

SuccessFactorKey == "success_factor"

NoObj == [present |-> FALSE]
NoItem == [present |-> FALSE]

\* errors are records so that every error value is comparable
NilErr == [msg |-> "nil", kind |-> "", name |-> 0]
Err(m) == [msg |-> m, kind |-> "", name |-> 0]
NotReadyErr(k, n) == [msg |-> "Resource is not ready", kind |-> k, name |-> n]

Result(s, e) == [status |-> s, err |-> e]
PanicResult == Result(Panicked, Err("runtime error"))

\* label pairs "k=v" a selector or a label map can hold (distinct keys)
LabelSets == {{}, {"a=1"}, {"a=1", "b=1"}}
ObjKinds == {"pod", "job", "replicaset", "statefulset"}

\* ------------------------------------------------------------- metadata
\* meta map[string]string: nil, or a map that may hold success_factor
NilMeta == [isNil |-> TRUE, has |-> FALSE, text |-> <<>>]
EmptyMeta == [isNil |-> FALSE, has |-> FALSE, text |-> <<>>]
FactorTexts == {<<"0">>, <<"5", "0">>, <<"8", "0">>, <<"1", "0", "0">>,
                <<"x">>, <<>>}
Metas == {NilMeta, EmptyMeta} \cup
         {[isNil |-> FALSE, has |-> TRUE, text |-> t] : t \in FactorTexts}

Digits == {"0", "1", "2", "3", "4", "5", "6", "7", "8", "9"}
DigitVal(c) == CASE c = "0" -> 0 [] c = "1" -> 1 [] c = "2" -> 2 [] c = "3" -> 3
                 [] c = "4" -> 4 [] c = "5" -> 5 [] c = "6" -> 6 [] c = "7" -> 7
                 [] c = "8" -> 8 [] c = "9" -> 9

RECURSIVE ParseDigits(_, _)
ParseDigits(t, acc) ==
    IF t = <<>> THEN acc ELSE ParseDigits(Tail(t), acc * 10 + DigitVal(Head(t)))

\* strconv.ParseInt(factor, 10, 32) on the texts above
ParseInt(t) ==
    IF t # <<>> /\ \A i \in 1..Len(t) : t[i] \in Digits
    THEN [ok |-> TRUE, val |-> ParseDigits(t, 0)]
    ELSE [ok |-> FALSE, val |-> 0]

\* getPercentage(factorName, meta): the factor defaults to 100 when meta is nil
\* or has no such key; an unparsable or out-of-range text is an error
getPercentage(meta) ==
    LET text == IF meta.isNil \/ ~meta.has THEN <<"1", "0", "0">> ELSE meta.text
        p == ParseInt(text)
    IN  IF ~p.ok THEN [val |-> 0, err |-> Err("invalid syntax")]
        ELSE IF p.val < 0 \/ p.val > 100
             THEN [val |-> p.val, err |-> Err("factor not between 0 and 100")]
             ELSE [val |-> p.val, err |-> NilErr]

\* ------------------------------------------------------ remote objects
\* ObjectMeta and Spec of an object, the part EqualToDefinition compares
SpecOf(o) == [rev |-> o.rev, replicas |-> o.replicas, selector |-> o.selector]

\* the object the API server stores for a declaration: nothing is up yet
NewObject(d) ==
    [present |-> TRUE, rev |-> d.rev, replicas |-> d.replicas,
     selector |-> d.selector, observed |-> 0, updated |-> 0, available |-> 0,
     bound |-> FALSE]

\* Client.Get(name): the live object, or a not-found error
ClientGet == IF remote.present THEN [obj |-> remote, err |-> NilErr]
             ELSE [obj |-> NoObj, err |-> Err("not found")]

\* Client.Create(obj): the API server stores the object unless one of that
\* name exists, which it rejects without touching the stored object
ClientCreate(d) ==
    IF remote.present THEN [remote |-> remote, err |-> Err("already exists")]
    ELSE [remote |-> NewObject(d), err |-> NilErr]

\* ----------------------------------------------------- selected objects
\* apiClient.<Kind>().List(options): names of the cluster objects of kind k
\* carrying every label of sel, in name order
List(k, sel) ==
    SelectSeq([i \in 1..MaxObjs |-> i],
              LAMBDA i : cluster[i].present /\ cluster[i].kind = k
                         /\ sel \subseteq cluster[i].labels)

\* for _, x := range items { def := MakeDefinition(&x); ... }: with one range
\* variable for the whole loop every definition points at the last item
RangeByAddress(items) ==
    IF sharedVar /\ Len(items) > 0
    THEN [i \in 1..Len(items) |-> items[Len(items)]]
    ELSE items

Wrap(k, names) == [i \in 1..Len(names) |-> [kind |-> k, name |-> names[i]]]

\* resourceListStatus(resources): the first resource whose Status(nil) is not
\* ready decides, with an error naming it
RECURSIVE resourceListStatus(_)
resourceListStatus(resources) ==
    IF resources = <<>> THEN Result(ResourceReady, NilErr)
    ELSE LET r == Head(resources)
         IN  IF ~cluster[r.name].ready
             THEN Result(ResourceNotReady, NotReadyErr(r.kind, r.name))
             ELSE resourceListStatus(Tail(resources))

\* the resources serviceStatus collects for one "k=v" of the selector
SelectedBy(pair) ==
    Wrap("pod", RangeByAddress(List("pod", {pair})))
    \o Wrap("job", RangeByAddress(List("job", {pair})))
    \o Wrap("replicaset", RangeByAddress(List("replicaset", {pair})))
    \o Wrap("statefulset", RangeByAddress(List("statefulset", {pair})))

\* serviceStatus(service, apiClient): one pass per selector entry, in map
\* order; the first pass that is not ready returns. A nil apiClient is
\* dereferenced as soon as the selector has an entry.
serviceStatus(service, apiClientSet) ==
    IF service.selector = {} THEN {Result(ResourceReady, NilErr)}
    ELSE IF ~apiClientSet THEN {PanicResult}
    ELSE LET failing == {resourceListStatus(SelectedBy(p)) : p \in service.selector}
                        \ {Result(ResourceReady, NilErr)}
         IN  IF failing = {} THEN {Result(ResourceReady, NilErr)} ELSE failing

\* podsStateFromLabels(apiClient, labels): the pods carrying all the labels
podsStateFromLabels(labels) ==
    resourceListStatus(Wrap("pod", List("pod", labels)))

\* ------------------------------------------------------ readiness rules
deploymentStatus(d) ==
    IF d.updated >= d.replicas /\ d.available >= d.replicas
    THEN Result(ResourceReady, NilErr)
    ELSE Result(ResourceNotReady, NilErr)

persistentVolumeClaimStatus(pvc) ==
    IF pvc.bound THEN Result(ResourceReady, NilErr)
    ELSE Result(ResourceNotReady, NilErr)

\* replicaSetStatus that asks for strictly more than the success factor
replicaSetStatus_StrictlyAbove(rs, meta) ==
    LET f == getPercentage(meta)
    IN  IF f.err # NilErr THEN Result(ResourceError, f.err)
        ELSE IF rs.observed * 100 <= rs.replicas * f.val
             THEN Result(ResourceNotReady, NilErr)
             ELSE Result(ResourceReady, NilErr)

replicaSetStatus(rs, meta) ==
    LET f == getPercentage(meta)
    IN  IF f.err # NilErr THEN Result(ResourceError, f.err)
        ELSE IF rs.observed * 100 < rs.replicas * f.val
             THEN Result(ResourceNotReady, NilErr)
             ELSE Result(ResourceReady, NilErr)

\* reflect.DeepEqual on ObjectMeta and on Spec (ConfigMap: Data)
EqualToDefinition(o) == SpecOf(o) = decl

WaitingResult == Result(ResourceWaitingForUpgrade, Err(ResourceWaitingForUpgrade))

\* ------------------------------------------------------- Status methods
\* each returns the set of results the call can produce
Deployment_Status(meta) ==
    LET g == ClientGet
    IN  IF g.err # NilErr THEN {Result(ResourceError, g.err)}
        ELSE IF ~EqualToDefinition(g.obj) THEN {WaitingResult}
        ELSE {deploymentStatus(g.obj)}

ExistingDeployment_Status(meta) ==
    LET g == ClientGet
    IN  IF g.err # NilErr THEN {Result(ResourceError, g.err)}
        ELSE {deploymentStatus(g.obj)}

\* ReplicaSet.Status that reads the success factor before comparing with the definition
ReplicaSet_Status_FactorFirst(meta) ==
    LET g == ClientGet
    IN  IF g.err # NilErr THEN {Result(ResourceError, g.err)}
        ELSE IF getPercentage(meta).err # NilErr
             THEN {Result(ResourceError, getPercentage(meta).err)}
        ELSE IF ~EqualToDefinition(g.obj) THEN {WaitingResult}
        ELSE {replicaSetStatus(g.obj, meta)}

ReplicaSet_Status(meta) ==
    LET g == ClientGet
    IN  IF g.err # NilErr THEN {Result(ResourceError, g.err)}
        ELSE IF ~EqualToDefinition(g.obj) THEN {WaitingResult}
        ELSE {replicaSetStatus(g.obj, meta)}

ExistingReplicaSet_Status(meta) ==
    LET g == ClientGet
    IN  IF g.err # NilErr THEN {Result(ResourceError, g.err)}
        ELSE {replicaSetStatus(g.obj, meta)}

ConfigMap_Status(meta) ==
    LET g == ClientGet
    IN  IF g.err # NilErr THEN {Result(ResourceError, g.err)}
        ELSE IF ~EqualToDefinition(g.obj) THEN {WaitingResult}
        ELSE {Result(ResourceReady, NilErr)}

ExistingConfigMap_Status(meta) ==
    LET g == ClientGet
    IN  IF g.err # NilErr THEN {Result(ResourceError, g.err)}
        ELSE {Result(ResourceReady, NilErr)}

\* PersistentVolumeClaim.Status that takes a failed Get for a claim not bound yet
PersistentVolumeClaim_Status_GetErrorNotReady(meta) ==
    LET g == ClientGet
    IN  IF g.err # NilErr THEN {Result(ResourceNotReady, NilErr)}
        ELSE IF ~EqualToDefinition(g.obj) THEN {WaitingResult}
        ELSE {persistentVolumeClaimStatus(g.obj)}

PersistentVolumeClaim_Status(meta) ==
    LET g == ClientGet
    IN  IF g.err # NilErr THEN {Result(ResourceError, g.err)}
        ELSE IF ~EqualToDefinition(g.obj) THEN {WaitingResult}
        ELSE {persistentVolumeClaimStatus(g.obj)}

ExistingPersistentVolumeClaim_Status(meta) ==
    LET g == ClientGet
    IN  IF g.err # NilErr THEN {Result(ResourceError, g.err)}
        ELSE {persistentVolumeClaimStatus(g.obj)}

\* NewService sets APIClient
Service_Status(meta) ==
    LET g == ClientGet
    IN  IF g.err # NilErr THEN {Result(ResourceError, g.err)}
        ELSE IF ~EqualToDefinition(g.obj) THEN {WaitingResult}
        ELSE serviceStatus(g.obj, TRUE)

\* NewExistingService leaves APIClient nil
ExistingService_Status(meta) ==
    LET g == ClientGet
    IN  IF g.err # NilErr THEN {Result(ResourceError, g.err)}
        ELSE serviceStatus(g.obj, FALSE)

StatefulSet_Status(meta) ==
    LET g == ClientGet
    IN  IF g.err # NilErr THEN {Result(ResourceError, g.err)}
        ELSE IF ~EqualToDefinition(g.obj) THEN {WaitingResult}
        ELSE {podsStateFromLabels(g.obj.selector)}

ExistingStatefulSet_Status(meta) ==
    LET g == ClientGet
    IN  IF g.err # NilErr THEN {Result(ResourceError, g.err)}
        ELSE {podsStateFromLabels(g.obj.selector)}

\* r.Status(meta) through the interface
Status(k, ex, meta) ==
    CASE k = "deployment" ->
           IF ex THEN ExistingDeployment_Status(meta) ELSE Deployment_Status(meta)
      [] k = "replicaset" ->
           IF ex THEN ExistingReplicaSet_Status(meta) ELSE ReplicaSet_Status(meta)
      [] k = "configmap" ->
           IF ex THEN ExistingConfigMap_Status(meta) ELSE ConfigMap_Status(meta)
      [] k = "persistentvolumeclaim" ->
           IF ex THEN ExistingPersistentVolumeClaim_Status(meta)
           ELSE PersistentVolumeClaim_Status(meta)
      [] k = "service" ->
           IF ex THEN ExistingService_Status(meta) ELSE Service_Status(meta)
      [] k = "statefulset" ->
           IF ex THEN ExistingStatefulSet_Status(meta) ELSE StatefulSet_Status(meta)

\* ------------------------------------------------------- Create methods
\* an outcome: the error returned, whether Client.Create was called, the
\* remote object afterwards, and how the call ended
\*   "returned": err went back to the caller
\*   "exited":   log.Fatalf ended the process, nothing was returned
\*   "panicked": a runtime panic unwound the call
Outcome(e, issued, rem, how) ==
    [err |-> e, issued |-> issued, remote |-> rem, ended |-> how]

\* checkExistence(r): the error of r.Status(nil)
checkExistence(r) == r.err

\* if err := checkExistence(x); err != nil { x.Client.Create(...); return err }
CreateIfMissing(statuses) ==
    {IF r.status = Panicked THEN Outcome(r.err, FALSE, remote, "panicked")
     ELSE IF checkExistence(r) # NilErr
          THEN LET c == ClientCreate(decl)
               IN  Outcome(c.err, TRUE, c.remote, "returned")
          ELSE Outcome(NilErr, FALSE, remote, "returned") : r \in statuses}

\* createExistingResource(r): an error when checkExistence fails, no call
createExistingResource(statuses) ==
    {IF r.status = Panicked THEN Outcome(r.err, FALSE, remote, "panicked")
     ELSE IF checkExistence(r) # NilErr
          THEN Outcome(Err("Resource not found"), FALSE, remote, "returned")
          ELSE Outcome(NilErr, FALSE, remote, "returned") : r \in statuses}

\* the err == nil branch only logs; Client.Create follows on every path
Deployment_Create ==
    {LET c == ClientCreate(decl)
     IN  Outcome(c.err, TRUE, c.remote, "returned") : r \in Deployment_Status(NilMeta)}

\* log.Fatalf exits the process before the error can be returned
ExistingDeployment_Create ==
    {IF r.err = NilErr THEN Outcome(NilErr, FALSE, remote, "returned")
     ELSE Outcome(Err("Deployment not found"), FALSE, remote, "exited")
       : r \in ExistingDeployment_Status(NilMeta)}

ReplicaSet_Create == CreateIfMissing(ReplicaSet_Status(NilMeta))
ConfigMap_Create == CreateIfMissing(ConfigMap_Status(NilMeta))
PersistentVolumeClaim_Create == CreateIfMissing(PersistentVolumeClaim_Status(NilMeta))
Service_Create == CreateIfMissing(Service_Status(NilMeta))
StatefulSet_Create == CreateIfMissing(StatefulSet_Status(NilMeta))

ExistingReplicaSet_Create == createExistingResource(ExistingReplicaSet_Status(NilMeta))
ExistingConfigMap_Create == createExistingResource(ExistingConfigMap_Status(NilMeta))
ExistingPersistentVolumeClaim_Create ==
    createExistingResource(ExistingPersistentVolumeClaim_Status(NilMeta))
ExistingService_Create == createExistingResource(ExistingService_Status(NilMeta))
ExistingStatefulSet_Create == createExistingResource(ExistingStatefulSet_Status(NilMeta))

\* r.Create() through the interface
CreateOutcomes(k, ex) ==
    CASE k = "deployment" ->
           IF ex THEN ExistingDeployment_Create ELSE Deployment_Create
      [] k = "replicaset" ->
           IF ex THEN ExistingReplicaSet_Create ELSE ReplicaSet_Create
      [] k = "configmap" ->
           IF ex THEN ExistingConfigMap_Create ELSE ConfigMap_Create
      [] k = "persistentvolumeclaim" ->
           IF ex THEN ExistingPersistentVolumeClaim_Create
           ELSE PersistentVolumeClaim_Create
      [] k = "service" ->
           IF ex THEN ExistingService_Create ELSE Service_Create
      [] k = "statefulset" ->
           IF ex THEN ExistingStatefulSet_Create ELSE StatefulSet_Create

\* --------------------------------------------------- dependency reports
Report(blocks, pct, needed, e) ==
    [ended |-> "returned", blocks |-> blocks, percentage |-> pct,
     needed |-> needed, err |-> e]
PanicReport ==
    [ended |-> "panicked", blocks |-> FALSE, percentage |-> 0, needed |-> 0,
     err |-> Err("integer divide by zero")]

\* report.ErrorReport(name, err): a blocking report carrying the error
ErrorReport(e) == Report(TRUE, 0, 0, e)

\* replicaSetReport that does not look at the error of getPercentage
replicaSetReport_IgnoresFactorError(meta) ==
    LET g == ClientGet
        f == getPercentage(meta)
    IN  IF g.err # NilErr THEN ErrorReport(g.err)
        ELSE IF g.obj.observed = 0 THEN PanicReport
        ELSE LET percentage == (g.obj.replicas * 100) \div g.obj.observed
             IN  Report(FALSE, percentage, f.val, NilErr)

\* replicaSetReport(r, name, meta); int32 division panics on a zero divisor
replicaSetReport(meta) ==
    LET g == ClientGet
        f == getPercentage(meta)
    IN  IF g.err # NilErr THEN ErrorReport(g.err)
        ELSE IF f.err # NilErr THEN ErrorReport(f.err)
        ELSE IF g.obj.observed = 0 THEN PanicReport
        ELSE LET percentage == (g.obj.replicas * 100) \div g.obj.observed
             IN  IF percentage >= f.val
                 THEN Report(FALSE, percentage, f.val, NilErr)
                 ELSE Report(FALSE, percentage, f.val, NilErr)

ReplicaSet_GetDependencyReport(meta) == {replicaSetReport(meta)}
ExistingReplicaSet_GetDependencyReport(meta) == {replicaSetReport(meta)}

\* report.SimpleReporter.GetDependencyReport(meta): blocks unless Status is
\* ready; a Status error becomes an error report
SimpleReporter_GetDependencyReport(statuses) ==
    {IF r.status = Panicked
     THEN [ended |-> "panicked", blocks |-> FALSE, percentage |-> 0,
           needed |-> 0, err |-> r.err]
     ELSE IF r.err # NilErr THEN ErrorReport(r.err)
     ELSE IF r.status = ResourceReady THEN Report(FALSE, 100, 100, NilErr)
     ELSE Report(TRUE, 0, 0, NilErr) : r \in statuses}

\* r.GetDependencyReport(meta) through the interface
GetDependencyReport(k, ex, meta) ==
    IF k = "replicaset"
    THEN IF ex THEN ExistingReplicaSet_GetDependencyReport(meta)
         ELSE ReplicaSet_GetDependencyReport(meta)
    ELSE SimpleReporter_GetDependencyReport(Status(k, ex, meta))

\* ---------------------------------------------------- StatusIsCacheable
\* _, ok := meta[SuccessFactorKey]; return !ok (a nil map has no key)
\* ReplicaSet.StatusIsCacheable that looks at the value held under the key
ReplicaSet_StatusIsCacheable_ByValue(meta) ==
    ~(~meta.isNil /\ meta.has /\ getPercentage(meta).err = NilErr)

ReplicaSet_StatusIsCacheable(meta) == ~(~meta.isNil /\ meta.has)
ExistingReplicaSet_StatusIsCacheable(meta) == ~(~meta.isNil /\ meta.has)

Service_StatusIsCacheable(meta) == FALSE
ExistingService_StatusIsCacheable(meta) == FALSE

\* an adapter that declares no StatusIsCacheable is cacheable
Default_StatusIsCacheable(meta) == TRUE

\* r.StatusIsCacheable(meta) through the interface
StatusIsCacheable(k, ex, meta) ==
    CASE k = "replicaset" ->
           IF ex THEN ExistingReplicaSet_StatusIsCacheable(meta)
           ELSE ReplicaSet_StatusIsCacheable(meta)
      [] k = "service" ->
           IF ex THEN ExistingService_StatusIsCacheable(meta)
           ELSE Service_StatusIsCacheable(meta)
      [] OTHER -> Default_StatusIsCacheable(meta)

\* ---------------------------------------------------------------- state
NoCall ==
    [op |-> "none", meta |-> NilMeta, res |-> Result("", NilErr),
     out |-> Outcome(NilErr, FALSE, NoObj, "none"), rep |-> Report(FALSE, 0, 0, NilErr),
     pre |-> NoObj, cacheable |-> TRUE]

ReplicaRange(k) ==
    CASE k = "replicaset" -> 0..MaxReplicas
      [] k = "deployment" -> 0..MaxDeploymentReplicas
      [] OTHER -> {0}

SelectorRange(k) == IF k \in {"service", "statefulset"} THEN LabelSets ELSE {{}}

\* the declared objects of kind k
Declarations(k) ==
    [rev : {1}, replicas : ReplicaRange(k), selector : SelectorRange(k)]

\* the live objects of kind k that can stand for declaration d: d itself or an
\* edited revision of it, in any state its controller can report
LiveObjects(k, d) ==
    {o \in [present : {TRUE}, rev : {1, 2}, replicas : {d.replicas},
            selector : {d.selector},
            observed : IF k = "replicaset" THEN 0..MaxReplicas ELSE {0},
            updated : IF k = "deployment" THEN 0..MaxDeploymentReplicas ELSE {0},
            available : IF k = "deployment" THEN 0..MaxDeploymentReplicas ELSE {0},
            bound : IF k = "persistentvolumeclaim" THEN BOOLEAN ELSE {FALSE}] : TRUE}

Items(k) ==
    [present : {TRUE}, kind : IF k = "service" THEN ObjKinds ELSE {"pod"},
     labels : LabelSets, ready : BOOLEAN]

\* names are handed out in listing order: pods, jobs, replica sets, stateful
\* sets, then the unused names
KindRank(item) ==
    IF ~item.present THEN 4
    ELSE CASE item.kind = "pod" -> 0 [] item.kind = "job" -> 1
           [] item.kind = "replicaset" -> 2 [] item.kind = "statefulset" -> 3

NoCluster == [i \in 1..MaxObjs |-> NoItem]

\* the cluster objects that a Status call of this adapter can list: none when
\* the adapter never lists (no selector entry, a nil APIClient, a live object
\* that differs from the declaration)
Clusters(k, ex, d, rem) ==
    IF \/ k = "statefulset"
       \/ k = "service" /\ ~ex /\ d.selector # {} /\ (rem.present => SpecOf(rem) = d)
    THEN {c \in [1..MaxObjs -> Items(k) \cup {NoItem}] :
            \A i \in 1..(MaxObjs - 1) : KindRank(c[i]) <= KindRank(c[i + 1])}
    ELSE {NoCluster}

\* the metadata a caller passes to Status and GetDependencyReport
MetasFor(k) ==
    IF k = "replicaset" THEN Metas
    ELSE {NilMeta}

\* the metadata a caller passes to StatusIsCacheable
CacheMetasFor(k) ==
    IF k = "replicaset" THEN Metas
    ELSE {NilMeta, [isNil |-> FALSE, has |-> TRUE, text |-> <<"5", "0">>]}

Init ==
    /\ kind \in Kinds
    /\ existing \in BOOLEAN
    /\ decl \in Declarations(kind)
    /\ remote \in {NoObj} \cup LiveObjects(kind, decl)
    /\ cluster \in Clusters(kind, existing, decl, remote)
    /\ sharedVar \in (IF cluster # NoCluster /\ kind = "service" THEN BOOLEAN
                      ELSE {FALSE})
    /\ createCalls = 0
    /\ last = NoCall
    /\ procAlive = TRUE
    /\ sibling = "Pending"

\* -------------------------------------------------------------- actions
\* the scheduler polls the node: r.Status(meta)
CallStatus ==
    /\ procAlive
    /\ \E meta \in MetasFor(kind) : \E r \in Status(kind, existing, meta) :
         /\ last' = [NoCall EXCEPT !.op = "Status", !.meta = meta, !.res = r,
                                   !.pre = remote]
         /\ procAlive' = (r.status # Panicked)
    /\ UNCHANGED <<kind, existing, decl, remote, cluster, sharedVar, createCalls,
                   sibling>>

\* the scheduler creates the node: r.Create()
CallCreate ==
    /\ procAlive
    /\ createCalls < MaxCalls
    /\ \E o \in CreateOutcomes(kind, existing) :
         /\ last' = [NoCall EXCEPT !.op = "Create", !.out = o, !.pre = remote]
         /\ remote' = o.remote
         /\ createCalls' = IF o.issued THEN createCalls + 1 ELSE createCalls
         /\ procAlive' = (o.ended = "returned")
    /\ UNCHANGED <<kind, existing, decl, cluster, sharedVar, sibling>>

\* the scheduler evaluates an edge: r.GetDependencyReport(meta)
CallGetDependencyReport ==
    /\ procAlive
    /\ \E meta \in MetasFor(kind) :
       \E rep \in GetDependencyReport(kind, existing, meta) :
         /\ last' = [NoCall EXCEPT !.op = "GetDependencyReport", !.meta = meta,
                                   !.rep = rep, !.pre = remote]
         /\ procAlive' = (rep.ended = "returned")
    /\ UNCHANGED <<kind, existing, decl, remote, cluster, sharedVar, createCalls,
                   sibling>>

\* the status cache asks whether the node's status may be reused
CallStatusIsCacheable ==
    /\ procAlive
    /\ \E meta \in CacheMetasFor(kind) :
         last' = [NoCall EXCEPT !.op = "StatusIsCacheable", !.meta = meta,
                                !.cacheable = StatusIsCacheable(kind, existing, meta),
                                !.pre = remote]
    /\ UNCHANGED <<kind, existing, decl, remote, cluster, sharedVar, createCalls,
                   procAlive, sibling>>

\* the object's controller reports progress between two calls
ControllerUpdate ==
    /\ procAlive
    /\ remote.present
    /\ \E o \in LiveObjects(kind, SpecOf(remote)) :
         /\ o.rev = remote.rev
         /\ o # remote
         /\ remote' = o
    /\ last' = NoCall
    /\ UNCHANGED <<kind, existing, decl, cluster, sharedVar, createCalls,
                   procAlive, sibling>>

\* a selected object becomes ready or stops being ready between two calls
ObjectUpdate ==
    /\ procAlive
    /\ \E i \in 1..MaxObjs :
         /\ cluster[i].present
         /\ cluster' = [cluster EXCEPT ![i].ready = ~cluster[i].ready]
    /\ last' = NoCall
    /\ UNCHANGED <<kind, existing, decl, remote, sharedVar, createCalls,
                   procAlive, sibling>>

\* the unit of work of an independent branch of the graph: create, then poll
SiblingCreate ==
    /\ procAlive
    /\ sibling = "Pending"
    /\ sibling' = "Polling"
    /\ UNCHANGED <<kind, existing, decl, remote, cluster, sharedVar, createCalls,
                   last, procAlive>>

SiblingPoll ==
    /\ procAlive
    /\ sibling = "Polling"
    /\ sibling' = "Ready"
    /\ UNCHANGED <<kind, existing, decl, remote, cluster, sharedVar, createCalls,
                   last, procAlive>>

Next ==
    \/ CallStatus
    \/ CallCreate
    \/ CallGetDependencyReport
    \/ CallStatusIsCacheable
    \/ ControllerUpdate
    \/ ObjectUpdate

Spec == Init /\ [][Next]_vars

\* one run of the scheduler over two independent branches: a pre-existing
\* node, handled by the adapter, and a sibling node
InitRun == Init /\ existing = TRUE

NextRun ==
    \/ CallStatus
    \/ CallCreate
    \/ CallGetDependencyReport
    \/ CallStatusIsCacheable
    \/ ControllerUpdate
    \/ ObjectUpdate
    \/ SiblingCreate
    \/ SiblingPoll

SpecRun == InitRun /\ [][NextRun]_vars

\* =============================================================== claims
\* the live object o exists and equals the declaration
Matches(o) == o.present /\ SpecOf(o) = decl
\* the live object o exists and differs from the declaration
Drifted(o) == o.present /\ SpecOf(o) # decl

\* Create() of the managed adapter of kind k, called on a live object that
\* exists and equals the declaration, calls Client.Create not at all, leaves
\* the live object as it was and returns nil
CreateOnMatchingIsNoOp(k) ==
    (kind = k /\ ~existing /\ last.op = "Create" /\ Matches(last.pre)) =>
        /\ ~last.out.issued
        /\ remote = last.pre
        /\ last.out.ended = "returned"
        /\ last.out.err = NilErr

\* C1: for every managed adapter, Create() on a live object that exists and
\* equals the declaration calls Client.Create not at all, leaves the remote
\* state unchanged and returns nil. Stated for Deployment, the adapter whose
\* Create is written out in full in deployment.go.
C1_CreateOnMatchingIsNoOp == CreateOnMatchingIsNoOp("deployment")

\* C2: over any sequence of Create() calls of a managed adapter, against a
\* remote that keeps a created object exactly as declared, Client.Create is
\* called at most once for the resource. Stated for Deployment.
C2_CreateIssuedAtMostOnce ==
    (kind = "deployment" /\ ~existing /\ (remote.present => Matches(remote)))
        => createCalls <= 1

\* a managed adapter of kind k facing a live object that differs from the
\* declaration: Status() returns WaitingForUpgrade with a non-nil error, and
\* Create() neither calls Client.Create nor changes the live object
DriftIsOnlyReported(k) ==
    (kind = k /\ ~existing /\ Drifted(last.pre)) =>
        /\ last.op = "Status" =>
             /\ last.res.status = ResourceWaitingForUpgrade
             /\ last.res.err # NilErr
        /\ last.op = "Create" => ~last.out.issued
        /\ remote = last.pre

\* C3: whenever the live object exists but differs from the declaration,
\* Status() of a managed adapter returns WaitingForUpgrade with a non-nil
\* error and no Create()/Status() call issues a mutating call against, or
\* changes, the live object. Stated for Deployment.
C3_DriftIsOnlyReported == DriftIsOnlyReported("deployment")

\* the last call was GetDependencyReport on a replica set adapter (managed or
\* pre-existing) and returned a report that carries no error
ReplicaSetReported ==
    /\ kind = "replicaset"
    /\ last.op = "GetDependencyReport"
    /\ last.rep.ended = "returned"
    /\ last.rep.err = NilErr

\* C4: the dependency report of a replica set has Blocks = false if and only
\* if its percentage is greater than or equal to the percentage needed.
C4_BlocksIffBelowNeeded ==
    ReplicaSetReported =>
        (last.rep.blocks = FALSE <=> last.rep.percentage >= last.rep.needed)

Min(a, b) == IF a <= b THEN a ELSE b

\* C5: the Percentage of a replica set's dependency report equals
\* min(observed, desired) * 100 / desired, truncated, and is never above 100.
C5_PercentageOfDesired ==
    (ReplicaSetReported /\ last.pre.replicas > 0) =>
        /\ last.rep.percentage =
             (Min(last.pre.observed, last.pre.replicas) * 100) \div last.pre.replicas
        /\ last.rep.percentage <= 100

\* a replica set adapter was called with a parsable success factor on a live
\* object that is present (and, for the managed adapter, as declared) and
\* whose desired replica count is zero
ZeroDesiredCall ==
    /\ kind = "replicaset"
    /\ last.op \in {"Status", "GetDependencyReport"}
    /\ last.pre.present
    /\ last.pre.replicas = 0
    /\ ~existing => Matches(last.pre)
    /\ getPercentage(last.meta).err = NilErr

\* C6: with a desired replica count of zero the replica set is trivially
\* satisfied: GetDependencyReport returns a non-blocking report and Status
\* returns Ready, for every observed replica count, without failing.
C6_ZeroDesiredIsSatisfied ==
    ZeroDesiredCall =>
        /\ last.op = "Status" =>
             last.res = Result(ResourceReady, NilErr)
        /\ last.op = "GetDependencyReport" =>
             /\ last.rep.ended = "returned"
             /\ last.rep.err = NilErr
             /\ last.rep.blocks = FALSE

\* Create() of the pre-existing adapter of kind k is a read-only existence
\* check: no Client.Create, the live object untouched, nil when the object is
\* there, an error returned to the caller when it is not
ExistingCreateIsReadOnlyCheck(k) ==
    (kind = k /\ existing /\ last.op = "Create") =>
        /\ ~last.out.issued
        /\ remote = last.pre
        /\ last.out.ended = "returned"
        /\ last.pre.present => last.out.err = NilErr
        /\ ~last.pre.present => last.out.err # NilErr

\* C7: for every pre-existing adapter Create() never issues a mutating call,
\* returns nil when the object is present and returns an error to its caller
\* when the object is absent. Stated for ExistingDeployment, the adapter whose
\* Create is written out in full in deployment.go.
C7_ExistingCreateIsReadOnlyCheck == ExistingCreateIsReadOnlyCheck("deployment")

\* C8: a pre-existing resource found missing by Create() is a node-local
\* failure: the run goes on, and the unit of work of an independent sibling
\* branch can still take its next step until that branch is Ready.
C8_MissingExistingIsNodeLocal ==
    (existing /\ last.op = "Create" /\ ~last.pre.present) =>
        /\ procAlive
        /\ sibling # "Ready" => ENABLED (SiblingCreate \/ SiblingPoll)

\* C9: for the same live remote state and the same metadata, the managed and
\* the pre-existing adapter of a kind return the same Status() results and the
\* same dependency reports. Stated for the states in which the live object is
\* absent or equals the declaration, where the managed adapter has no drift
\* to report.
C9_VariantsAgree ==
    (remote.present => Matches(remote)) =>
        \A meta \in MetasFor(kind) :
            /\ Status(kind, FALSE, meta) = Status(kind, TRUE, meta)
            /\ GetDependencyReport(kind, FALSE, meta)
                 = GetDependencyReport(kind, TRUE, meta)

\* the cluster objects that match the whole selector sel
MatchingAll(sel) ==
    {i \in 1..MaxObjs : cluster[i].present /\ sel \subseteq cluster[i].labels}

\* C10: when the live service equals its declaration and every pod, job,
\* replica set and stateful set matching the whole selector is ready (also
\* when nothing matches), Service Status() returns Ready with a nil error,
\* whatever the state of the objects that do not match the selector.
C10_ServiceReadyOnWholeSelector ==
    (/\ kind = "service" /\ ~existing
     /\ last.op = "Status"
     /\ Matches(last.pre)
     /\ \A i \in MatchingAll(last.pre.selector) : cluster[i].ready)
        => last.res = Result(ResourceReady, NilErr)

\* C11: when the service selector matches at least one pod, job or replica
\* set that is not ready, Service Status() returns NotReady with the error
\* "Resource <kind>/<name> is not ready" naming a not-ready selected object,
\* and never Ready.
C11_ServiceNotReadyNamesObject ==
    (/\ kind = "service" /\ ~existing
     /\ last.op = "Status"
     /\ Matches(last.pre)
     /\ last.pre.selector # {}
     /\ \E i \in MatchingAll(last.pre.selector) :
           cluster[i].kind \in {"pod", "job", "replicaset"} /\ ~cluster[i].ready)
        => /\ last.res.status = ResourceNotReady
           /\ \E i \in 1..MaxObjs :
                /\ cluster[i].present /\ ~cluster[i].ready
                /\ last.res.err = NotReadyErr(cluster[i].kind, i)

\* the adapters whose readiness comes from a selection of other objects
SelectionBased == {"service", "statefulset"}

\* C12: every adapter whose readiness is computed from a changing selection
\* of other objects (Service, ExistingService, StatefulSet,
\* ExistingStatefulSet) answers StatusIsCacheable with false for every
\* metadata.
C12_SelectionBasedNotCacheable ==
    (kind \in SelectionBased /\ last.op = "StatusIsCacheable") =>
        /\ last.cacheable = FALSE
        /\ \A meta \in Metas : StatusIsCacheable(kind, existing, meta) = FALSE

\* a replica set adapter was called on a live object that is present (and,
\* for the managed adapter, as declared)
ReplicaSetCalled(op) ==
    /\ kind = "replicaset"
    /\ last.op = op
    /\ last.pre.present
    /\ ~existing => Matches(last.pre)

\* the metadata holds a success_factor that is no percentage
Unparsable(meta) == ~meta.isNil /\ meta.has /\ getPercentage(meta).err # NilErr

\* C13: a success_factor that cannot be parsed is never passed through: on a
\* present and matching replica set Status() returns Error with a non-nil
\* error and GetDependencyReport returns an error report that blocks.
C13_UnparsableFactorIsError ==
    /\ (ReplicaSetCalled("Status") /\ Unparsable(last.meta)) =>
          /\ last.res.status = ResourceError
          /\ last.res.err # NilErr
    /\ (ReplicaSetCalled("GetDependencyReport") /\ Unparsable(last.meta)) =>
          /\ last.rep.ended = "returned"
          /\ last.rep.err # NilErr
          /\ last.rep.blocks = TRUE

C13_Witness ==
    /\ ReplicaSetCalled("GetDependencyReport")
    /\ Unparsable(last.meta)
    /\ last.pre.observed >= last.pre.replicas
    /\ last.rep.blocks = TRUE

\* C14: when Client.Get of the adapter's own object fails, Status() of every
\* adapter returns Error together with that error, never Ready or NotReady,
\* and the dependency report of a replica set is an error report carrying
\* the error.
C14_GetFailureIsError ==
    /\ (last.op = "Status" /\ ~last.pre.present) =>
          last.res = Result(ResourceError, Err("not found"))
    /\ (kind = "replicaset" /\ last.op = "GetDependencyReport" /\ ~last.pre.present) =>
          /\ last.rep.ended = "returned"
          /\ last.rep = ErrorReport(Err("not found"))

C14_Witness ==
    /\ kind = "persistentvolumeclaim"
    /\ last.op = "Status"
    /\ ~last.pre.present
    /\ last.res.status = ResourceError

HasFactorKey(meta) == ~meta.isNil /\ meta.has

\* C15: StatusIsCacheable of a replica set adapter, managed or existing, is
\* false exactly when the meta map holds the success factor key, whatever
\* its value, and true for a nil map or a map without the key.
C15_CacheableIffNoFactorKey ==
    (kind = "replicaset" /\ last.op = "StatusIsCacheable") =>
        (last.cacheable <=> ~HasFactorKey(last.meta))

C15_Witness ==
    /\ kind = "replicaset"
    /\ ~existing
    /\ last.op = "StatusIsCacheable"
    /\ HasFactorKey(last.meta)
    /\ getPercentage(last.meta).err # NilErr
    /\ last.cacheable = FALSE

Parsable(meta) == getPercentage(meta).err = NilErr

\* C16: for a replica set that is present and matches the declaration, with a
\* success factor F that parses, Status() is Ready exactly when
\* observed * 100 >= desired * F and NotReady otherwise, never Error or
\* WaitingForUpgrade.
C16_ReadyIffFactorReached ==
    (ReplicaSetCalled("Status") /\ Parsable(last.meta)) =>
        LET F == getPercentage(last.meta).val
        IN  last.res = IF last.pre.observed * 100 >= last.pre.replicas * F
                       THEN Result(ResourceReady, NilErr)
                       ELSE Result(ResourceNotReady, NilErr)

C16_Witness ==
    /\ ReplicaSetCalled("Status")
    /\ HasFactorKey(last.meta)
    /\ Parsable(last.meta)
    /\ last.pre.observed < last.pre.replicas
    /\ last.pre.observed * 100 = last.pre.replicas * getPercentage(last.meta).val
    /\ last.res.status = ResourceReady

\* C17: Status() of every managed adapter applies its checks in a fixed
\* order: a failed Get yields Error; otherwise a live object that differs
\* from the declaration yields WaitingForUpgrade, even when it would count
\* as Ready or when the success factor of a replica set is unparsable; only
\* a present and matching object is given Ready or NotReady.
C17_StatusPrecedence ==
    (~existing /\ last.op = "Status") =>
        /\ ~last.pre.present => last.res.status = ResourceError
        /\ (last.pre.present /\ Drifted(last.pre)) => last.res = WaitingResult
        /\ last.res.status \in {ResourceReady, ResourceNotReady} =>
              (last.pre.present /\ Matches(last.pre))

C17_Witness ==
    /\ kind = "replicaset"
    /\ ~existing
    /\ last.op = "Status"
    /\ last.pre.present
    /\ Drifted(last.pre)
    /\ Unparsable(last.meta)
    /\ last.res = WaitingResult

\* C18: for the same live replica set and the same metadata (object present,
\* matching, success factor parsable), Status() returns Ready exactly when
\* GetDependencyReport() returns a report with Blocks = false.
C18_ReportAgreesWithStatus ==
    (ReplicaSetCalled("GetDependencyReport") /\ Parsable(last.meta)) =>
        /\ remote = last.pre
        /\ (Result(ResourceReady, NilErr) \in Status(kind, existing, last.meta))
              <=> (last.rep.ended = "returned" /\ last.rep.blocks = FALSE)

====
